---------------------------- MODULE Spec2Model ----------------------------
(***************************************************************************)
(* A state-machine model of the AbiCamera device adapter                   *)
(* (src/AbiCamera.h, src/AbiCamera.cpp, src/SequenceThread.cpp).           *)
(*                                                                         *)
(* The camera object is driven by one caller context (the host).  A        *)
(* SnapImage call is modelled step by step, one action per transport call, *)
(* because the outcome of every transport call (error code, number of      *)
(* bytes delivered) is chosen by the environment.  All other handlers are  *)
(* one action each.                                                        *)
(*                                                                         *)
(* Pixel storage is kept symbolically: a buffer's bytes are a sequence of  *)
(* segments [n, b, s]; byte j (0-based) of a segment is (b + s*j) % 256.   *)
(* The device streams a payload whose k-th byte is (seed + k) % 256.       *)
(***************************************************************************)
EXTENDS Integers, Sequences, FiniteSets, TLC

(***************************************************************************)
(* Return codes.                                                           *)
(***************************************************************************)
DEVICE_OK == 0
DEVICE_ERR == 1
DEVICE_CAMERA_BUSY_ACQUIRING == 30
ERR_IMAGE_READ == 104
ERR_COM_RESPONSE == 120

(***************************************************************************)
(* Program constants.                                                      *)
(***************************************************************************)
IMAGE_WIDTH == 512
IMAGE_HEIGHT == 512
chunkSize == 32768
maxIters == 75
AckLen == 2
TEMP_READ_DELAY_MS == 200
ADC_V == 330
DEVICE_BUFFER_OVERFLOW == 22
ERR_UNKNOWN_MODE == 102
\* m_ccdT(42.42), in hundredths of a degree
InitialCcdT == 4242
\* Length of the answers to the temperature query and to the cooling command
TempAnsLen == 4
\* CDeviceUtils::SleepMs(100) between a command and the read of its answer
CommandDelayMs == 100
ColdAnsLen == 1

(***************************************************************************)
(* Input sets and bounds of the model.                                     *)
(***************************************************************************)
\* Binning factors the host sets in the acquisition specification
\* (a subset of the allowed values 1,2,4,8,16,32,64).
BinningInputs == {1, 4}
\* ROI rectangles <<x, y, xSize, ySize>> the host sets.
RoiInputs == { <<0, 0, 0, 0>>, <<3, 3, 0, 1>>, <<3, 3, 256, 128>> }
\* First byte of a payload streamed by the device.
Seeds == {5, 10}
\* What a read past the end of an allocation can see.
GarbageVals == {0, 170}
\* Frame counts passed to StartSequenceAcquisition.
FrameCounts == {1, 5}
\* The two fragments in which the first 32768-byte block may arrive.
Frags == << 10000, 22768 >>
\* Error codes a failing transport call returns (DEVICE_ERR, DEVICE_SERIAL_TIMEOUT).
TransportErrors == {DEVICE_ERR, 14}
\* Results of GetCoreCallback()->PrepareForAcq.
PrepareResults == {DEVICE_OK, DEVICE_ERR}
\* The values the Binning and the BitDepth property allow (Initialize).
AllowedBinnings == {1, 2, 4, 8, 16, 32, 64}
AllowedBitDepths == {6, 8, 10, 12}
\* The values the PixelType property allows (Initialize).
AllowedPixelTypes == {"8bit"}
\* Time that passes between two calls of the host, in ms.
TickSteps == {100}
\* The first two bytes <<ansBuf[0], ansBuf[1]>> of an answer to the temperature query.
TempAnswers == { <<16, 14>>, <<116, 14>> }
\* The byte the device answers to the cooling command.
ColdAnswers == {0, 1, 255}
\* Results of InsertImage on the core callback.
SinkResults == {DEVICE_OK, DEVICE_ERR, DEVICE_BUFFER_OVERFLOW}
\* The clock value up to which the model follows time, in ms.
MaxNow == 600
\* Reads of one acknowledgment loop that the model follows.
MaxAckPolls == 3

Min(a, b) == IF a < b THEN a ELSE b

(***************************************************************************)
(* Symbolic pixel storage.                                                 *)
(***************************************************************************)
Seg(n, b, s) == [n |-> n, b |-> b, s |-> s]
Fill(v, n) == IF n <= 0 THEN <<>> ELSE << Seg(n, v, 0) >>
Zeros(n) == Fill(0, n)
Ramp(seed, n) == IF n <= 0 THEN <<>> ELSE << Seg(n, seed, 1) >>

RECURSIVE PixLen(_)
PixLen(p) == IF p = <<>> THEN 0 ELSE p[1].n + PixLen(Tail(p))

RECURSIVE ByteAt(_, _)
ByteAt(p, i) ==
    IF i < p[1].n THEN (p[1].b + p[1].s * i) % 256
    ELSE ByteAt(Tail(p), i - p[1].n)

RECURSIVE TakePix(_, _)
TakePix(p, n) ==
    IF n <= 0 \/ p = <<>> THEN <<>>
    ELSE IF p[1].n <= n THEN << p[1] >> \o TakePix(Tail(p), n - p[1].n)
    ELSE << Seg(n, p[1].b, p[1].s) >>

RECURSIVE DropPix(_, _)
DropPix(p, n) ==
    IF n <= 0 \/ p = <<>> THEN p
    ELSE IF p[1].n <= n THEN DropPix(Tail(p), n - p[1].n)
    ELSE << Seg(p[1].n - n, (p[1].b + p[1].s * n) % 256, p[1].s) >> \o Tail(p)

\* uint8_t result of a - b
SubByte(a, b) == (a - b + 256) % 256

\* std::transform(a, a + len(a), b, a, a - b) on equally long operands
RECURSIVE SubPix(_, _)
SubPix(a, b) ==
    IF a = <<>> \/ b = <<>> THEN <<>>
    ELSE LET k == Min(a[1].n, b[1].n)
         IN  << Seg(k, SubByte(a[1].b, b[1].b), SubByte(a[1].s, b[1].s)) >>
             \o SubPix(DropPix(a, k), DropPix(b, k))

(***************************************************************************)
(* ImgBuffer: width, height, depth (bytes per pixel) and the pixels.       *)
(***************************************************************************)
ImgBuffer(w, h, d, px) == [w |-> w, h |-> h, d |-> d, px |-> px]
\* ImgBuffer::Resize(w, h, d): new geometry, pixels zeroed
ImgResize(w, h, d) == ImgBuffer(w, h, d, Zeros(w * h * d))
BufSize(buf) == buf.w * buf.h * buf.d
\* ImgBuffer::SetPixels(src): memcpy of BufSize(buf) bytes from src; bytes
\* read past the end of src are whatever lies there (g).
ImgSetPixels(buf, src, g) ==
    [buf EXCEPT !.px = TakePix(src \o Fill(g, BufSize(buf) - PixLen(src)), BufSize(buf))]

VARIABLES
    \* AbiCamera fields
    m_initialized, m_binning, m_bytesPerPixel, m_bitDepth, m_subtractBackground,
    m_roiStartX, m_roiStartY, m_imgBuf, m_bkgBuf,
    \* SequenceThread fields; threadActive: activate() has run and svc has not returned
    m_stop, m_numImages, m_imageCounter, m_intervalMs, threadActive,
    \* the SnapImage call in progress: position, buffer being read, locals
    pc, target, totalRead, read, numIters,
    \* observations of the environment and of the last call
    wire, imgAtCall, lastOp, lastRet, seq,
    \* the clock (ms since construction) and the temperature / cooling fields
    now, m_lastTempRead, m_ccdT, m_cold,
    \* observations of the last cooling command
    cool,
    \* observations of the temperature queries and of the downstream sink
    temp, sink

camVars == << m_initialized, m_binning, m_bytesPerPixel, m_bitDepth,
              m_subtractBackground, m_roiStartX, m_roiStartY >>
bufVars == << m_imgBuf, m_bkgBuf >>
thrVars == << m_stop, m_numImages, m_imageCounter, m_intervalMs, threadActive >>
snapVars == << pc, target, totalRead, read, numIters >>
obsVars == << wire, imgAtCall >>
tempVars == << now, m_lastTempRead, m_ccdT, m_cold, temp, cool >>
sinkVars == << sink >>
vars == << camVars, bufVars, thrVars, snapVars, obsVars, lastOp, lastRet, seq,
           tempVars, sinkVars >>

(***************************************************************************)
(* Observations.  wire describes the SnapImage call in progress (or the    *)
(* last one):                                                              *)
(*   sht, rid   trigger and readout commands sent                          *)
(*   ack        acknowledgment bytes consumed since the last trigger       *)
(*   polls      reads issued for them                                      *)
(*   empty      reads that came back empty since the last of those bytes   *)
(*   ackAtRid   ack when the readout command went out (kept until the      *)
(*              first read of the payload; -1 otherwise)                   *)
(*   fault      the error code the transport returned (0: none)            *)
(*   reads, zeroReads, pauses                                              *)
(*              transport reads, empty ones among them and SleepMs(100)    *)
(*              of the ReadImage that follows the last trigger             *)
(*   bgSeed, fgSeed   first byte of the payloads accepted for the          *)
(*              background and the live buffer                             *)
(*   bkgWritten whether the call wrote the background buffer               *)
(* imgAtCall is the live buffer as it was when the call began.             *)
(***************************************************************************)
NoWire == [sht |-> 0, rid |-> 0, ack |-> 0, polls |-> 0, empty |-> 0,
           ackAtRid |-> -1, fault |-> 0, reads |-> 0, zeroReads |-> 0,
           pauses |-> 0, bgSeed |-> -1, fgSeed |-> -1,
           bkgWritten |-> FALSE]
NoBuf == ImgBuffer(0, 0, 0, << >>)
NoSeq == [n |-> 0, published |-> 0, again |-> FALSE]
\* temp describes the last temperature query: touched whether it sent the
\* query command, callAt the clock when it was called, measuredBefore the
\* clock of the last query before it that obtained a measurement (-1: none),
\* got the value it handed to the property (<< >>: none); measuredAt is the
\* clock of the last query that obtained a measurement, trips the query
\* commands sent so far.
\* stampBefore and valueBefore are m_lastTempRead and m_ccdT as they were
\* when the last query was called.
NoTemp == [touched |-> FALSE, callAt |-> -1, measuredBefore |-> -1, got |-> << >>,
           measuredAt |-> -1, trips |-> 0, stampBefore |-> -1, valueBefore |-> -1]
\* cool describes the last OnCold(AfterSet) call: asked the value to set,
\* before the value of m_cold when it was called, sent whether the command
\* went out, readLen the bytes read back (-1: no read returned), ans the
\* byte read back (-1: none).
NoCool == [asked |-> -1, before |-> -1, sent |-> FALSE, readLen |-> -1, ans |-> -1]
\* sink describes the last InsertImage call: submits and clears are the calls
\* of InsertImage and ClearImageBuffer on the core callback, first and second
\* the results of the first and of the second submission (-1: none), process
\* the doProcess argument of the last submission.
NoSink == [submits |-> 0, clears |-> 0, first |-> -1, second |-> -1, process |-> TRUE]

(***************************************************************************)
(* SequenceThread (src/SequenceThread.cpp).                                *)
(***************************************************************************)
SequenceThread_IsStopped == m_stop
IsCapturing == ~SequenceThread_IsStopped

\* SequenceThread::Stop
SequenceThread_Stop == m_stop' = TRUE

\* SequenceThread::Start: no caller in src/AbiCamera.cpp
SequenceThread_Start(numImages, intervalMs) ==
    /\ m_numImages' = numImages
    /\ m_intervalMs' = intervalMs
    /\ m_imageCounter' = 0
    /\ m_stop' = FALSE
    /\ threadActive' = TRUE

\* SequenceThread::svc: returns DEVICE_ERR at once; the context exits
SequenceThread_svc ==
    /\ threadActive
    /\ threadActive' = FALSE
    /\ UNCHANGED << m_stop, m_numImages, m_imageCounter, m_intervalMs >>
    /\ UNCHANGED << camVars, bufVars, snapVars, obsVars, lastOp, lastRet, seq, tempVars, sinkVars >>

(***************************************************************************)
(* State after construction (AbiCamera::AbiCamera, SequenceThread ctor).   *)
(***************************************************************************)
\* A constructor that leaves the stop flag clear
ThreadInitiallyRunning == FALSE
\* m_stop(true) in the constructor's initializer list
ThreadInitiallyStopped == TRUE

Init ==
    /\ m_initialized = FALSE
    /\ m_binning = 1
    /\ m_bytesPerPixel = 1
    /\ m_bitDepth = 8
    /\ m_subtractBackground = 1
    /\ m_roiStartX = 0
    /\ m_roiStartY = 0
    /\ m_imgBuf = NoBuf
    /\ m_bkgBuf = NoBuf
    /\ m_stop = ThreadInitiallyStopped
    /\ m_numImages = 0
    /\ m_imageCounter = 0
    /\ m_intervalMs = 100
    /\ threadActive = FALSE
    /\ pc = "idle"
    /\ target = "img"
    /\ totalRead = 0
    /\ read = 0
    /\ numIters = 0
    /\ wire = NoWire
    /\ imgAtCall = NoBuf
    /\ lastOp = "ctor"
    /\ lastRet = DEVICE_OK
    /\ seq = NoSeq
    /\ now = 0
    /\ m_lastTempRead = 0
    /\ m_ccdT = InitialCcdT
    /\ m_cold = 0
    /\ temp = NoTemp
    /\ cool = NoCool
    /\ sink = NoSink

\* The host calls the camera API from one context, after Initialize, and
\* not while a call is in progress.
Callable == m_initialized /\ pc = "idle"

\* What every handler other than SnapImage leaves behind.
Returned(op, ret) ==
    /\ lastOp' = op
    /\ lastRet' = ret
    /\ wire' = NoWire
    /\ imgAtCall' = NoBuf

(***************************************************************************)
(* Geometry.                                                               *)
(***************************************************************************)
\* A resize that bins the width only
ResizeImageBufferWidthOnly(b) ==
    /\ m_imgBuf' = ImgResize(IMAGE_WIDTH \div b, IMAGE_HEIGHT, m_bytesPerPixel)
    /\ m_bkgBuf' = ImgResize(IMAGE_WIDTH \div b, IMAGE_HEIGHT, m_bytesPerPixel)
\* AbiCamera::ResizeImageBuffer with binning b
ResizeImageBuffer(b) ==
    /\ m_imgBuf' = ImgResize(IMAGE_WIDTH \div b, IMAGE_HEIGHT \div b, m_bytesPerPixel)
    /\ m_bkgBuf' = ImgResize(IMAGE_WIDTH \div b, IMAGE_HEIGHT \div b, m_bytesPerPixel)

GetImageBufferSize == m_imgBuf.w * m_imgBuf.h * m_imgBuf.d

\* AbiCamera::Initialize with the property creation of the framework succeeding
Initialize ==
    /\ pc = "idle"
    /\ IF m_initialized
       THEN UNCHANGED << m_initialized, bufVars >>
       ELSE /\ ResizeImageBuffer(m_binning)
            /\ m_initialized' = TRUE
    /\ Returned("Initialize", DEVICE_OK)
    /\ UNCHANGED << m_binning, m_bytesPerPixel, m_bitDepth, m_subtractBackground,
                    m_roiStartX, m_roiStartY, thrVars, snapVars, seq, tempVars, sinkVars >>

\* OnBinning, MM::AfterSet
OnBinning(binSize) ==
    /\ Callable
    /\ m_binning' = binSize
    /\ ResizeImageBuffer(binSize)
    /\ Returned("OnBinning", DEVICE_OK)
    /\ UNCHANGED << m_initialized, m_bytesPerPixel, m_bitDepth, m_subtractBackground,
                    m_roiStartX, m_roiStartY, thrVars, snapVars, seq, tempVars, sinkVars >>

\* A SetROI whose empty rectangle restores the unbinned sensor geometry
SetROIFullSensor(x, y, xSize, ySize) ==
    /\ Callable
    /\ IF xSize = 0 /\ ySize = 0
       THEN /\ ResizeImageBuffer(1)
            /\ m_roiStartX' = 0
            /\ m_roiStartY' = 0
       ELSE /\ m_imgBuf' = ImgResize(xSize, ySize, m_imgBuf.d)
            /\ m_bkgBuf' = m_bkgBuf
            /\ m_roiStartX' = x
            /\ m_roiStartY' = y
    /\ Returned("SetROI", DEVICE_OK)
    /\ UNCHANGED << m_initialized, m_binning, m_bytesPerPixel, m_bitDepth,
                    m_subtractBackground, thrVars, snapVars, seq, tempVars, sinkVars >>
SetROI(x, y, xSize, ySize) ==
    /\ Callable
    /\ IF xSize = 0 /\ ySize = 0
       THEN /\ ResizeImageBuffer(m_binning)
            /\ m_roiStartX' = 0
            /\ m_roiStartY' = 0
       ELSE /\ m_imgBuf' = ImgResize(xSize, ySize, m_imgBuf.d)
            /\ m_bkgBuf' = m_bkgBuf
            /\ m_roiStartX' = x
            /\ m_roiStartY' = y
    /\ Returned("SetROI", DEVICE_OK)
    /\ UNCHANGED << m_initialized, m_binning, m_bytesPerPixel, m_bitDepth,
                    m_subtractBackground, thrVars, snapVars, seq, tempVars, sinkVars >>

ClearROI ==
    /\ Callable
    /\ ResizeImageBuffer(m_binning)
    /\ m_roiStartX' = 0
    /\ m_roiStartY' = 0
    /\ Returned("ClearROI", DEVICE_OK)
    /\ UNCHANGED << m_initialized, m_binning, m_bytesPerPixel, m_bitDepth,
                    m_subtractBackground, thrVars, snapVars, seq, tempVars, sinkVars >>

\* OnBackground, MM::AfterSet
OnBackground(subtract) ==
    /\ Callable
    /\ m_subtractBackground' = subtract
    /\ Returned("OnBackground", DEVICE_OK)
    /\ UNCHANGED << m_initialized, m_binning, m_bytesPerPixel, m_bitDepth,
                    m_roiStartX, m_roiStartY, bufVars, thrVars, snapVars, seq, tempVars, sinkVars >>

(***************************************************************************)
(* Sequence acquisition.  seq records what the host asked for: n is the    *)
(* frame count of the last accepted, not yet stopped request (0: none),    *)
(* published the frames handed to the sink for it, again whether the last  *)
(* StartSequenceAcquisition call found such a request still short of its   *)
(* frame count.                                                            *)
(***************************************************************************)
Outstanding == seq.n > 0 /\ seq.published < seq.n

StartSequenceAcquisition(numImages) ==
    /\ Callable
    /\ lastOp' = "StartSequenceAcquisition"
    /\ wire' = NoWire
    /\ imgAtCall' = NoBuf
    /\ IF IsCapturing
       THEN /\ lastRet' = DEVICE_CAMERA_BUSY_ACQUIRING
            /\ seq' = [seq EXCEPT !.again = Outstanding]
       ELSE \E ret \in PrepareResults :
               /\ lastRet' = ret
               /\ seq' = IF ret = DEVICE_OK
                         THEN [n |-> numImages, published |-> 0, again |-> Outstanding]
                         ELSE [seq EXCEPT !.again = Outstanding]
    /\ UNCHANGED << camVars, bufVars, thrVars, snapVars, tempVars, sinkVars >>

StopSequenceAcquisition ==
    /\ Callable
    /\ IF ~SequenceThread_IsStopped
       THEN /\ SequenceThread_Stop
            \* m_thread->wait(): returns once the context has exited
            /\ threadActive' = FALSE
            /\ UNCHANGED << m_numImages, m_imageCounter, m_intervalMs >>
       ELSE UNCHANGED thrVars
    /\ Returned("StopSequenceAcquisition", DEVICE_OK)
    /\ seq' = NoSeq
    /\ UNCHANGED << camVars, bufVars, snapVars, tempVars, sinkVars >>

(***************************************************************************)
(* SnapImage, one action per transport call.                               *)
(***************************************************************************)
\* SnapImage returns ret
Return(ret) ==
    /\ pc' = "idle"
    /\ target' = "img"
    /\ lastRet' = ret

\* The process dies (an outcome of undefined behaviour)
Crash ==
    /\ pc' = "crashed"
    /\ UNCHANGED << target, totalRead, read, numIters, lastRet >>

\* What follows a transport call that failed with code ret
Failed(ret) ==
    /\ Return(ret)
    /\ totalRead' = 0
    /\ read' = 0
    /\ numIters' = 0
    /\ wire' = [wire EXCEPT !.fault = ret, !.ackAtRid = -1,
                            !.reads = 0, !.zeroReads = 0, !.pauses = 0]
    /\ UNCHANGED bufVars

\* Entry: PurgeComPort, then the background or the foreground cycle
SnapImage_Begin ==
    /\ Callable
    /\ pc' = "sht"
    /\ target' = IF m_subtractBackground # 0 THEN "bkg" ELSE "img"
    /\ wire' = NoWire
    /\ imgAtCall' = m_imgBuf
    /\ lastOp' = "SnapImage"
    /\ lastRet' = -1
    /\ totalRead' = 0
    /\ read' = 0
    /\ numIters' = 0
    /\ UNCHANGED << camVars, bufVars, thrVars, seq, tempVars, sinkVars >>

\* SendSerialCommand("sht 0") / SendSerialCommand("sht <exposure>")
SnapImage_SendTrigger ==
    /\ pc = "sht"
    /\ \/ \E ret \in TransportErrors : Failed(ret)
       \/ /\ wire' = [wire EXCEPT !.sht = @ + 1, !.ack = 0, !.polls = 0, !.empty = 0,
                                  !.reads = 0, !.zeroReads = 0, !.pauses = 0]
          /\ pc' = "ack"
          /\ totalRead' = 0
          /\ read' = 0
          /\ UNCHANGED << target, numIters, lastRet, bufVars >>
    /\ UNCHANGED << camVars, thrVars, imgAtCall, lastOp, seq, tempVars, sinkVars >>

\* One pass of do { ReadFromComPort(buf.data() + totalRead, 2, read) ... }
\* while (totalRead < 2), and the check of read that follows the loop.
\* k: the bytes the transport delivers.
AckRead(k) ==
    LET tr == totalRead + k
        w == [wire EXCEPT !.ack = @ + k, !.polls = @ + 1,
                          !.empty = IF k = 0 THEN @ + 1 ELSE 0]
    IN  \/ \* the write ran past the 2-byte array and the process died
           /\ tr > AckLen
           /\ Crash
           /\ wire' = w
        \/ /\ wire' = w
           /\ IF tr < 2
              THEN /\ pc' = "ack"
                   /\ totalRead' = tr
                   /\ read' = k
                   /\ UNCHANGED << target, numIters, lastRet >>
              ELSE IF k # 2
              THEN /\ Return(ERR_COM_RESPONSE)
                   /\ totalRead' = tr
                   /\ read' = k
                   /\ UNCHANGED numIters
              ELSE /\ pc' = "rid"
                   /\ totalRead' = tr
                   /\ read' = k
                   /\ UNCHANGED << target, numIters, lastRet >>

SnapImage_ReadAck ==
    /\ pc = "ack"
    /\ wire.polls < MaxAckPolls
    /\ \/ \E ret \in TransportErrors : Failed(ret)
       \/ /\ \E k \in 0 .. AckLen : AckRead(k)
          /\ UNCHANGED bufVars
    /\ UNCHANGED << camVars, thrVars, imgAtCall, lastOp, seq, tempVars, sinkVars >>

\* SendSerialCommand("rid <binning> <bitDepth>"), and the entry of ReadImage
SnapImage_SendReadout ==
    /\ pc = "rid"
    /\ \/ \E ret \in TransportErrors : Failed(ret)
       \/ /\ wire' = [wire EXCEPT !.rid = @ + 1, !.ackAtRid = wire.ack,
                                  !.ack = 0, !.polls = 0, !.empty = 0]
          /\ pc' = "read"
          /\ totalRead' = 0
          /\ read' = 0
          /\ numIters' = 0
          /\ UNCHANGED << target, lastRet, bufVars >>
    /\ UNCHANGED << camVars, thrVars, imgAtCall, lastOp, seq, tempVars, sinkVars >>

(***************************************************************************)
(* ReadImage.                                                              *)
(***************************************************************************)
\* Byte counts one ReadFromComPort(.., chunkSize, read) delivers: nothing,
\* a full chunk, what is missing of the frame, or a fragment of the first block.
Chunks(n, tr) ==
    {0, chunkSize}
    \cup (IF n - tr > 0 /\ n - tr <= chunkSize THEN {n - tr} ELSE {})
    \cup (IF tr = 0 THEN {Frags[1]} ELSE {})
    \cup (IF tr = Frags[1] THEN {Frags[2]} ELSE {})

\* SleepMs(100) after a read of length k
PausesAfter(k) == IF k = 0 THEN 1 ELSE 0

\* A loop that allows one more pass than maxIters
ReadMoreInclusive(tr, ni, n) == tr < n /\ ni <= maxIters
\* The loop goes round again
ReadMore(tr, ni, n) == tr < n /\ ni < maxIters

\* The accumulated bytes are accepted as the frame
ReadComplete(tr, n) == tr = n

\* The vector of 2 * n zero bytes after tr payload bytes were written to it
Accumulated(seed, tr, n) == Ramp(seed, tr) \o Zeros(2 * n - tr)

\* The subtraction of SnapImage: live[i] = live[i] - bkg[i] for the n bytes
\* of the live buffer; g: what a read past the end of bkg sees.
Subtract(img, bkg, g) ==
    [img EXCEPT !.px = SubPix(img.px,
                              TakePix(bkg.px \o Fill(g, BufSize(img) - BufSize(bkg)),
                                      BufSize(img)))]

\* Whether installing into the target, or subtracting, reads past an allocation
ReadsPastEnd(n) ==
    \/ target = "bkg" /\ BufSize(m_bkgBuf) > 2 * n
    \/ target = "img" /\ m_subtractBackground # 0 /\ BufSize(m_bkgBuf) < n

\* buf.SetPixels(buffer.data()) and the rest of SnapImage.
\* seed: the first byte of the payload the transport delivered;
\* g: what reads past an allocation see; w: the observations so far.
Install(seed, tr, n, g, w) ==
    LET src == Accumulated(seed, tr, n)
    IN  IF target = "bkg"
        THEN /\ m_bkgBuf' = ImgSetPixels(m_bkgBuf, src, g)
             /\ m_imgBuf' = m_imgBuf
             /\ wire' = [w EXCEPT !.bgSeed = seed, !.bkgWritten = TRUE]
             /\ pc' = "sht"
             /\ target' = "img"
             /\ UNCHANGED lastRet
        ELSE /\ m_imgBuf' = IF m_subtractBackground # 0
                            THEN Subtract(ImgSetPixels(m_imgBuf, src, g), m_bkgBuf, g)
                            ELSE ImgSetPixels(m_imgBuf, src, g)
             /\ m_bkgBuf' = m_bkgBuf
             /\ wire' = [w EXCEPT !.fgSeed = seed]
             /\ Return(DEVICE_OK)

\* One pass of the do-while loop of ReadImage with k bytes delivered, and,
\* when the loop ends, the rest of ReadImage (and of SnapImage).  The local
\* read is used within the pass only.
ReadChunk(k) ==
    LET n == GetImageBufferSize
        tr == totalRead + k
        ni == numIters + 1
        w == [wire EXCEPT !.ackAtRid = -1,
                          !.reads = @ + 1,
                          !.zeroReads = @ + (IF k = 0 THEN 1 ELSE 0),
                          !.pauses = @ + PausesAfter(k)]
    IN  \/ \* the transport wrote past the 2 * n bytes of the vector and the process died
           /\ tr > 2 * n
           /\ Crash
           /\ wire' = w
           /\ UNCHANGED bufVars
        \/ IF ReadMore(tr, ni, n)
           THEN /\ totalRead' = tr
                /\ numIters' = ni
                /\ wire' = w
                /\ UNCHANGED << pc, target, read, lastRet, bufVars >>
           ELSE /\ totalRead' = tr
                /\ numIters' = ni
                /\ UNCHANGED read
                /\ IF ~ReadComplete(tr, n)
                   THEN /\ Return(ERR_IMAGE_READ)
                        /\ wire' = w
                        /\ UNCHANGED bufVars
                   ELSE \E seed \in Seeds, g \in GarbageVals : Install(seed, tr, n, g, w)
        \/ \* the frame is complete and a read past an allocation faulted
           /\ ~ReadMore(tr, ni, n)
           /\ ReadComplete(tr, n)
           /\ ReadsPastEnd(n)
           /\ Crash
           /\ wire' = w
           /\ UNCHANGED bufVars

ReadImage_Step ==
    /\ pc = "read"
    /\ \/ \E ret \in TransportErrors : Failed(ret)
       \/ \E k \in Chunks(GetImageBufferSize, totalRead) : ReadChunk(k)
    /\ UNCHANGED << camVars, thrVars, imgAtCall, lastOp, seq, tempVars, sinkVars >>

(***************************************************************************)
(* Locks.  m_imgPixelsLock is taken by ReadImage on entry and released     *)
(* when it returns; no code takes m_portLock.                              *)
(***************************************************************************)
HoldsImgPixelsLock == pc = "read"
HoldsPortLock == FALSE

(***************************************************************************)
(* Pixel type and bit depth.                                               *)
(***************************************************************************)
\* OnPixelType, MM::AfterSet
OnPixelType(val) ==
    /\ Callable
    /\ IF IsCapturing
       THEN /\ lastRet' = DEVICE_CAMERA_BUSY_ACQUIRING
            /\ UNCHANGED << m_bytesPerPixel, bufVars >>
       ELSE /\ m_bytesPerPixel' = IF val = "8bit" THEN 1 ELSE m_bytesPerPixel
            /\ lastRet' = IF val = "8bit" THEN DEVICE_OK ELSE ERR_UNKNOWN_MODE
            /\ m_imgBuf' = ImgResize(IMAGE_WIDTH \div m_binning, IMAGE_HEIGHT \div m_binning,
                                     m_bytesPerPixel')
            /\ m_bkgBuf' = ImgResize(IMAGE_WIDTH \div m_binning, IMAGE_HEIGHT \div m_binning,
                                     m_bytesPerPixel')
    /\ lastOp' = "OnPixelType"
    /\ wire' = NoWire
    /\ imgAtCall' = NoBuf
    /\ UNCHANGED << m_initialized, m_binning, m_bitDepth, m_subtractBackground,
                    m_roiStartX, m_roiStartY, thrVars, snapVars, seq, tempVars, sinkVars >>

\* OnBitDepth, MM::AfterSet
OnBitDepth(bitDepth) ==
    /\ Callable
    /\ IF IsCapturing
       THEN /\ lastRet' = DEVICE_CAMERA_BUSY_ACQUIRING
            /\ UNCHANGED m_bitDepth
       ELSE /\ m_bitDepth' = bitDepth
            /\ lastRet' = DEVICE_OK
    /\ lastOp' = "OnBitDepth"
    /\ wire' = NoWire
    /\ imgAtCall' = NoBuf
    /\ UNCHANGED << m_initialized, m_binning, m_bytesPerPixel, m_subtractBackground,
                    m_roiStartX, m_roiStartY, bufVars, thrVars, snapVars, seq,
                    tempVars, sinkVars >>

(***************************************************************************)
(* Temperature and cooling.  Temperatures are in hundredths of a degree.   *)
(***************************************************************************)
\* The host lets time pass between two calls
Tick ==
    /\ pc = "idle"
    /\ \E d \in TickSteps :
          /\ now + d <= MaxNow
          /\ now' = now + d
    /\ UNCHANGED << camVars, bufVars, thrVars, snapVars, obsVars, lastOp, lastRet, seq,
                    m_lastTempRead, m_ccdT, m_cold, temp, cool, sinkVars >>

\* tempAdc * ADC_V / 4096.0 - 273.15 for the answer bytes ans, truncated to
\* hundredths
CcdT(ans) == ((ans[2] * 256 + ans[1]) * ADC_V * 100) \div 4096 - 27315

\* OnCCDTemp, MM::BeforeGet
OnCCDTemp ==
    /\ Callable
    /\ lastOp' = "OnCCDTemp"
    /\ wire' = NoWire
    /\ imgAtCall' = NoBuf
    /\ LET q == [temp EXCEPT !.callAt = now, !.measuredBefore = temp.measuredAt,
                             !.stampBefore = m_lastTempRead, !.valueBefore = m_ccdT]
       IN  IF now - m_lastTempRead > TEMP_READ_DELAY_MS
           THEN /\ m_lastTempRead' = now
                /\ \/ \* SendSerialCommand("chp") fails
                      \E ret \in TransportErrors :
                         /\ lastRet' = ret
                         /\ temp' = [q EXCEPT !.touched = TRUE, !.got = << >>, !.trips = @ + 1]
                         /\ UNCHANGED << now, m_ccdT >>
                   \/ \* the command goes out, SleepMs(100), ReadFromComPort(.., 4, read)
                      /\ now + CommandDelayMs <= MaxNow
                      /\ now' = now + CommandDelayMs
                      /\ \/ \E ret \in TransportErrors :
                               /\ lastRet' = ret
                               /\ temp' = [q EXCEPT !.touched = TRUE, !.got = << >>,
                                                    !.trips = @ + 1]
                               /\ UNCHANGED m_ccdT
                         \/ \E k \in 0 .. (TempAnsLen - 1) :
                               /\ lastRet' = ERR_COM_RESPONSE
                               /\ temp' = [q EXCEPT !.touched = TRUE, !.got = << >>,
                                                    !.trips = @ + 1]
                               /\ UNCHANGED m_ccdT
                         \/ \E ans \in TempAnswers :
                               /\ m_ccdT' = CcdT(ans)
                               /\ lastRet' = DEVICE_OK
                               /\ temp' = [q EXCEPT !.touched = TRUE, !.got = << CcdT(ans) >>,
                                                    !.measuredAt = now, !.trips = @ + 1]
           ELSE /\ lastRet' = DEVICE_OK
                /\ temp' = [q EXCEPT !.touched = FALSE, !.got = << m_ccdT >>]
                /\ UNCHANGED << now, m_lastTempRead, m_ccdT >>
    /\ UNCHANGED << camVars, bufVars, thrVars, snapVars, seq, m_cold, cool, sinkVars >>

\* An OnCold that records the new state before the answer is checked
OnColdEager(cold) ==
    /\ Callable
    /\ lastOp' = "OnCold"
    /\ wire' = NoWire
    /\ imgAtCall' = NoBuf
    /\ m_cold' = cold
    /\ LET c == [asked |-> cold, before |-> m_cold, sent |-> FALSE, readLen |-> -1, ans |-> -1]
       IN  \/ \E ret \in TransportErrors :
                /\ lastRet' = ret
                /\ cool' = c
                /\ UNCHANGED now
           \/ /\ now + CommandDelayMs <= MaxNow
              /\ now' = now + CommandDelayMs
              /\ \/ \E ret \in TransportErrors :
                       /\ lastRet' = ret
                       /\ cool' = [c EXCEPT !.sent = TRUE]
                 \/ \E k \in 0 .. (ColdAnsLen - 1) :
                       /\ lastRet' = ERR_COM_RESPONSE
                       /\ cool' = [c EXCEPT !.sent = TRUE, !.readLen = k]
                 \/ \E ans \in ColdAnswers :
                       /\ lastRet' = DEVICE_OK
                       /\ cool' = [c EXCEPT !.sent = TRUE, !.readLen = ColdAnsLen, !.ans = ans]
    /\ UNCHANGED << camVars, bufVars, thrVars, snapVars, seq, m_lastTempRead, m_ccdT,
                    temp, sinkVars >>
\* OnCold, MM::AfterSet
OnCold(cold) ==
    /\ Callable
    /\ lastOp' = "OnCold"
    /\ wire' = NoWire
    /\ imgAtCall' = NoBuf
    /\ LET c == [asked |-> cold, before |-> m_cold, sent |-> FALSE, readLen |-> -1, ans |-> -1]
       IN  \/ \* SendSerialCommand("cld <cold>") fails
              \E ret \in TransportErrors :
                /\ lastRet' = ret
                /\ cool' = c
                /\ UNCHANGED << now, m_cold >>
           \/ \* the command goes out, SleepMs(100), ReadFromComPort(.., 1, read)
              /\ now + CommandDelayMs <= MaxNow
              /\ now' = now + CommandDelayMs
              /\ \/ \E ret \in TransportErrors :
                       /\ lastRet' = ret
                       /\ cool' = [c EXCEPT !.sent = TRUE]
                       /\ UNCHANGED m_cold
                 \/ \E k \in 0 .. (ColdAnsLen - 1) :
                       /\ lastRet' = ERR_COM_RESPONSE
                       /\ cool' = [c EXCEPT !.sent = TRUE, !.readLen = k]
                       /\ UNCHANGED m_cold
                 \/ \E ans \in ColdAnswers :
                       /\ m_cold' = cold
                       /\ lastRet' = DEVICE_OK
                       /\ cool' = [c EXCEPT !.sent = TRUE, !.readLen = ColdAnsLen, !.ans = ans]
    /\ UNCHANGED << camVars, bufVars, thrVars, snapVars, seq, m_lastTempRead, m_ccdT,
                    temp, sinkVars >>

(***************************************************************************)
(* Publishing the live buffer.                                             *)
(***************************************************************************)
\* An InsertImage that gives up on overflow
InsertImageNoRetry(r1, r2) ==
    /\ Callable
    /\ lastOp' = "InsertImage"
    /\ wire' = NoWire
    /\ imgAtCall' = NoBuf
    /\ sink' = [submits |-> 1, clears |-> 0, first |-> r1, second |-> -1, process |-> TRUE]
    /\ lastRet' = r1
    /\ UNCHANGED << camVars, bufVars, thrVars, snapVars, seq, tempVars >>
\* InsertImage; r1, r2: what the core callback answers to the first and to
\* the second submission.
InsertImage(r1, r2) ==
    /\ Callable
    /\ lastOp' = "InsertImage"
    /\ wire' = NoWire
    /\ imgAtCall' = NoBuf
    /\ IF r1 = DEVICE_BUFFER_OVERFLOW
       THEN /\ sink' = [submits |-> 2, clears |-> 1, first |-> r1, second |-> r2,
                        process |-> FALSE]
            /\ lastRet' = r2
       ELSE /\ sink' = [submits |-> 1, clears |-> 0, first |-> r1, second |-> -1,
                        process |-> TRUE]
            /\ lastRet' = r1
    /\ UNCHANGED << camVars, bufVars, thrVars, snapVars, seq, tempVars >>

(***************************************************************************)
(* The program.                                                            *)
(***************************************************************************)
Next ==
    \/ Initialize
    \/ \E b \in BinningInputs : OnBinning(b)
    \/ \E r \in RoiInputs : SetROI(r[1], r[2], r[3], r[4])
    \/ ClearROI
    \/ \E v \in {0, 1} : OnBackground(v)
    \/ SnapImage_Begin
    \/ SnapImage_SendTrigger
    \/ SnapImage_ReadAck
    \/ SnapImage_SendReadout
    \/ ReadImage_Step

Spec == Init /\ [][Next]_vars

(***************************************************************************)
(* The sequence-acquisition interface with the configuration handlers,     *)
(* no SnapImage call.  The background context, once started, is scheduled. *)
(***************************************************************************)
SeqNext ==
    \/ Initialize
    \/ \E b \in AllowedBinnings : OnBinning(b)
    \/ \E t \in AllowedPixelTypes : OnPixelType(t)
    \/ \E d \in AllowedBitDepths : OnBitDepth(d)
    \/ \E r \in RoiInputs : SetROI(r[1], r[2], r[3], r[4])
    \/ ClearROI
    \/ \E v \in {0, 1} : OnBackground(v)
    \/ \E n \in FrameCounts : StartSequenceAcquisition(n)
    \/ StopSequenceAcquisition

SeqSpec == Init /\ [][SeqNext]_vars

FairSeqSpec == SeqSpec /\ WF_vars(SequenceThread_svc)

(***************************************************************************)
(* The temperature and cooling properties, with time passing.              *)
(***************************************************************************)
TempNext ==
    \/ Initialize
    \/ Tick
    \/ OnCCDTemp
    \/ \E c \in {0, 1} : OnCold(c)

TempSpec == Init /\ [][TempNext]_vars

(***************************************************************************)
(* InsertImage applied to the configurations the handlers produce.         *)
(***************************************************************************)
PublishNext ==
    \/ Initialize
    \/ \E b \in BinningInputs : OnBinning(b)
    \/ \E r \in RoiInputs : SetROI(r[1], r[2], r[3], r[4])
    \/ ClearROI
    \/ \E r1, r2 \in SinkResults : InsertImage(r1, r2)

PublishSpec == Init /\ [][PublishNext]_vars


(***************************************************************************)
(* Properties.                                                             *)
(***************************************************************************)
\* A StartSequenceAcquisition call has just been accepted
StartAccepted == lastOp = "StartSequenceAcquisition" /\ lastRet = DEVICE_OK /\ seq.n > 0
\* The frames asked for were handed to the sink and the controller is idle again
Delivered == seq.n > 0 /\ seq.published = seq.n /\ ~IsCapturing
\* The last ReadImage of the SnapImage call has ended without a transport error
ReadImageEnded == wire.reads > 0 /\ pc \in {"idle", "sht"}
\* The last SnapImage call returned DEVICE_OK
SnapSucceeded == pc = "idle" /\ lastOp = "SnapImage" /\ lastRet = DEVICE_OK
\* Byte offsets at which buffers are compared
SamplePoints(n) == { i \in {0, 1, n \div 2, n - 1} : 0 <= i /\ i < n }

\* C1: once a sequence acquisition for n frames has been accepted, and unless
\* the host stops it, n frames are eventually handed to the sink and
\* IsCapturing() is false again.
C1_SequenceDelivers == StartAccepted ~> (Delivered \/ seq.n = 0)

\* C2: a StartSequenceAcquisition call made while an accepted sequence is
\* still short of its frame count returns DEVICE_CAMERA_BUSY_ACQUIRING and
\* leaves that sequence as it was.
C2_BusyWhileRunning ==
    (lastOp = "StartSequenceAcquisition" /\ seq.again)
        => lastRet = DEVICE_CAMERA_BUSY_ACQUIRING

C5_ReadoutAfterTwoAckBytes ==
    /\ wire.rid <= wire.sht
    /\ wire.ackAtRid \in {-1, AckLen}

\* C6: when the device answers a trigger with 1 byte and every later read
\* comes back empty, SnapImage has returned ERR_COM_RESPONSE, has sent no
\* readout command for that trigger and the live buffer is as it was.
C6_OneByteAckRejected ==
    (wire.sht > 0 /\ wire.ack = 1 /\ wire.empty = MaxAckPolls - 1 /\ wire.fault = 0)
        => /\ pc = "idle"
           /\ lastRet = ERR_COM_RESPONSE
           /\ wire.rid < wire.sht
           /\ m_imgBuf = imgAtCall

\* C7: a transport error, or an acknowledgment that is not 2 bytes long, ends
\* SnapImage at that step with that error code and the live buffer as it was
\* before the call.
C7_ErrorsAbort ==
    /\ wire.fault # 0
         => /\ pc = "idle"
            /\ lastRet = wire.fault
            /\ m_imgBuf = imgAtCall
    /\ (wire.ack > AckLen /\ wire.fault = 0 /\ pc # "crashed")
         => /\ pc = "idle"
            /\ lastRet = ERR_COM_RESPONSE
            /\ m_imgBuf = imgAtCall

\* C8 (as written): a ReadImage all of whose reads returned 0 bytes has
\* returned ERR_IMAGE_READ after exactly maxIters reads and has not changed
\* the buffer it reads into.
C8_AllEmptyReadsFail ==
    (ReadImageEnded /\ wire.zeroReads = wire.reads)
        => /\ pc = "idle"
           /\ lastRet = ERR_IMAGE_READ
           /\ wire.reads = maxIters
           /\ m_imgBuf = imgAtCall
           /\ (wire.rid = 1 /\ m_subtractBackground # 0) => ~wire.bkgWritten

\* C8 (amended): the same for an expected byte count greater than 0.
C8_AllEmptyReadsFailNonEmptyFrame ==
    (ReadImageEnded /\ wire.zeroReads = wire.reads /\ GetImageBufferSize > 0)
        => /\ pc = "idle"
           /\ lastRet = ERR_IMAGE_READ
           /\ wire.reads = maxIters
           /\ m_imgBuf = imgAtCall
           /\ (wire.rid = 1 /\ m_subtractBackground # 0) => ~wire.bkgWritten
\* ReadImage gave up on a frame of more than 0 bytes after maxIters empty reads
C8_Witness ==
    /\ ReadImageEnded
    /\ GetImageBufferSize > 0
    /\ wire.zeroReads = maxIters
    /\ wire.reads = maxIters
    /\ lastRet = ERR_IMAGE_READ

\* C9: ReadImage pauses once per empty read, reads no further once the total
\* is the expected byte count N, and a ReadImage whose total is N (N > 0) has
\* succeeded and has installed the N payload bytes in the buffer it reads into.
C9_ExactFrameInstalled ==
    /\ wire.pauses = wire.zeroReads
    /\ (pc = "read" /\ numIters > 0) => totalRead < GetImageBufferSize
    /\ (ReadImageEnded /\ GetImageBufferSize > 0 /\ totalRead = GetImageBufferSize)
         => /\ pc = "sht" \/ lastRet = DEVICE_OK
            /\ pc = "sht" => m_bkgBuf.px = Ramp(wire.bgSeed, GetImageBufferSize)
            /\ (pc = "idle" /\ m_subtractBackground = 0)
                 => m_imgBuf.px = Ramp(wire.fgSeed, GetImageBufferSize)

\* C10: after a successful SnapImage every byte of the live buffer is the
\* foreground payload byte minus the background payload byte modulo 256 when
\* subtraction is enabled, and the foreground payload byte when it is not.
C10_SubtractionWraps ==
    SnapSucceeded
        => /\ PixLen(m_imgBuf.px) = GetImageBufferSize
           /\ \A i \in SamplePoints(GetImageBufferSize) :
                 ByteAt(m_imgBuf.px, i) =
                    IF m_subtractBackground # 0
                    THEN SubByte((wire.fgSeed + i) % 256, (wire.bgSeed + i) % 256)
                    ELSE (wire.fgSeed + i) % 256


\* C11: a temperature query sends the query command exactly when no
\* measurement was obtained within the TEMP_READ_DELAY_MS before it; otherwise
\* it succeeds and hands out the last measured value.
C11_TemperatureCache ==
    lastOp = "OnCCDTemp"
        => LET fresh == /\ temp.measuredBefore >= 0
                        /\ temp.callAt - temp.measuredBefore <= TEMP_READ_DELAY_MS
           IN  /\ temp.touched <=> ~fresh
               /\ fresh => (lastRet = DEVICE_OK /\ temp.got = << m_ccdT >>)

\* C12: between a command of SnapImage going out and the end of its response
\* the caller holds the lock that ReadImage holds.
C12_ExchangeUnderOneLock ==
    pc \in {"ack", "rid", "read"} => HoldsImgPixelsLock

\* C13: while an accepted sequence is still short of its frame count, a
\* change of binning, pixel type, bit depth or ROI returns
\* DEVICE_CAMERA_BUSY_ACQUIRING.
C13_GeometryChangeRejectedWhileRunning ==
    (Outstanding /\ lastOp \in {"OnBinning", "OnPixelType", "OnBitDepth", "SetROI", "ClearROI"})
        => lastRet = DEVICE_CAMERA_BUSY_ACQUIRING

\* C14: after binning is set to b, one of 1, 2, 4, 8, 16, 32, 64, the live
\* buffer is IMAGE_WIDTH div b wide and IMAGE_HEIGHT div b high, and resizing
\* once more for the same b gives the same width, height and bytes per pixel.
C14_BinningGeometry ==
    lastOp = "OnBinning"
        => /\ m_binning \in AllowedBinnings
           /\ m_imgBuf.w = IMAGE_WIDTH \div m_binning
           /\ m_imgBuf.h = IMAGE_HEIGHT \div m_binning
           /\ LET again == ImgResize(IMAGE_WIDTH \div m_binning, IMAGE_HEIGHT \div m_binning,
                                     m_bytesPerPixel)
              IN  /\ again.w = m_imgBuf.w
                  /\ again.h = m_imgBuf.h
                  /\ again.d = m_imgBuf.d
\* Binning was set to 64 and the live buffer is 8 x 8
C14_Witness ==
    /\ lastOp = "OnBinning"
    /\ m_binning = 64
    /\ m_imgBuf.w = 8
    /\ m_imgBuf.h = 8

\* What clearing the ROI leaves behind
ZeroRoiEffect ==
    /\ m_roiStartX' = 0
    /\ m_roiStartY' = 0
    /\ m_imgBuf' = ImgResize(IMAGE_WIDTH \div m_binning, IMAGE_HEIGHT \div m_binning,
                             m_bytesPerPixel)
    /\ m_bkgBuf' = ImgResize(IMAGE_WIDTH \div m_binning, IMAGE_HEIGHT \div m_binning,
                             m_bytesPerPixel)
    /\ lastRet' = DEVICE_OK
    /\ UNCHANGED << m_initialized, m_binning, m_bytesPerPixel, m_bitDepth,
                    m_subtractBackground, thrVars, snapVars, seq >>

\* C15: from every reachable configuration SetROI(0,0,0,0) and ClearROI()
\* lead to the same state: ROI origin (0,0), live and background buffer of the
\* native dimensions divided by the binning factor.
C15_ZeroRoiIsClearRoi == [][(SetROI(0, 0, 0, 0) \/ ClearROI) => ZeroRoiEffect]_vars
\* SetROI(0,0,0,0) has restored the binned geometry
C15_Witness ==
    /\ lastOp = "SetROI"
    /\ m_roiStartX = 0
    /\ m_binning = 4
    /\ m_imgBuf.w = IMAGE_WIDTH \div 4
    /\ m_bkgBuf.w = IMAGE_WIDTH \div 4

\* C16: when the first submission of InsertImage reports overflow the sink is
\* cleared once and the frame is submitted once more without processing, the
\* result of that submission being the result of InsertImage; otherwise there
\* is one submission and no clear.  InsertImage leaves the sequence thread alone.
C16_OverflowResubmitsOnce ==
    /\ [](lastOp = "InsertImage"
            => IF sink.first = DEVICE_BUFFER_OVERFLOW
               THEN /\ sink.clears = 1
                    /\ sink.submits = 2
                    /\ ~sink.process
                    /\ lastRet = sink.second
               ELSE /\ sink.clears = 0
                    /\ sink.submits = 1
                    /\ lastRet = sink.first)
    /\ [][(\E r1, r2 \in SinkResults : InsertImage(r1, r2)) => UNCHANGED thrVars]_vars
\* The sink overflowed and took the frame at the second submission
C16_Witness ==
    /\ lastOp = "InsertImage"
    /\ sink.first = DEVICE_BUFFER_OVERFLOW
    /\ sink.submits = 2
    /\ lastRet = DEVICE_OK

\* C17: once initialized, the live and the background buffer have the same
\* width, height and bytes per pixel.
C17_BuffersSameGeometry ==
    m_initialized
        => /\ m_imgBuf.w = m_bkgBuf.w
           /\ m_imgBuf.h = m_bkgBuf.h
           /\ m_imgBuf.d = m_bkgBuf.d

\* C18: a ReadImage whose total reached or passed the expected byte count N
\* within maxIters reads has succeeded.
C18_OvershootTrimmed ==
    (ReadImageEnded /\ GetImageBufferSize > 0 /\ totalRead >= GetImageBufferSize
                    /\ numIters <= maxIters)
        => pc = "sht" \/ lastRet = DEVICE_OK

\* C19: SnapImage returns ERR_COM_RESPONSE only when the acknowledgment bytes
\* read since the trigger are not 2 in total, however they were split over
\* the reads.
C19_SplitAckAccepted ==
    (pc = "idle" /\ lastOp = "SnapImage" /\ lastRet = ERR_COM_RESPONSE)
        => wire.ack # AckLen

\* C20: bytes per pixel is 1 for a bit depth of 8 and 2 for a bit depth of 10
\* or 12, and both buffers hold width * height * bytes-per-pixel bytes.
C20_BytesPerPixelFollowsBitDepth ==
    m_initialized
        => /\ m_bitDepth = 8 => m_bytesPerPixel = 1
           /\ m_bitDepth \in {10, 12} => m_bytesPerPixel = 2
           /\ PixLen(m_imgBuf.px) = m_imgBuf.w * m_imgBuf.h * m_bytesPerPixel
           /\ PixLen(m_bkgBuf.px) = m_bkgBuf.w * m_bkgBuf.h * m_bytesPerPixel

\* C21: a temperature query that fails (transport error or an answer that is
\* not 4 bytes long) leaves the cached value and the timestamp as they were.
C21_FailedQueryKeepsCache ==
    (lastOp = "OnCCDTemp" /\ lastRet # DEVICE_OK)
        => /\ m_ccdT = temp.valueBefore
           /\ m_lastTempRead = temp.stampBefore

\* C25: after OnCold, m_cold is the value asked for when the command went out
\* and exactly 1 byte was read back, whatever that byte is, and the call
\* succeeded exactly then; otherwise m_cold is what it was before the call.
C25_ColdFollowsAcknowledgment ==
    lastOp = "OnCold"
        => /\ lastRet = DEVICE_OK <=> (cool.sent /\ cool.readLen = ColdAnsLen)
           /\ lastRet = DEVICE_OK => m_cold = cool.asked
           /\ lastRet # DEVICE_OK => m_cold = cool.before
           /\ (cool.sent /\ cool.readLen \in 0 .. (ColdAnsLen - 1)) => lastRet = ERR_COM_RESPONSE
\* Cooling was switched on although the device answered with another byte
C25_Witness ==
    /\ lastOp = "OnCold"
    /\ lastRet = DEVICE_OK
    /\ cool.before = 0
    /\ cool.asked = 1
    /\ cool.ans = 255
    /\ m_cold = 1
\* A cooling command failed after cooling had been switched on
C25_WitnessFailure ==
    /\ lastOp = "OnCold"
    /\ lastRet = ERR_COM_RESPONSE
    /\ cool.before = 1
    /\ cool.asked = 0
    /\ m_cold = 1

\* The order of the commands of one SnapImage: with subtraction enabled the
\* real-exposure trigger goes out only after the zero-exposure trigger, its
\* readout command and a frame installed in the background buffer; with
\* subtraction disabled there is one trigger and one readout command at most,
\* exactly one of each in a call that succeeded, and no background frame.
C22_TriggerOrder ==
    lastOp = "SnapImage"
        => /\ wire.rid <= wire.sht
           /\ m_subtractBackground # 0
                => /\ wire.sht <= 2
                   /\ target = "bkg" => (wire.sht <= 1 /\ ~wire.bkgWritten)
                   /\ wire.sht = 2 => (target = "img" /\ wire.rid >= 1 /\ wire.bkgWritten)
                   /\ SnapSucceeded => (wire.sht = 2 /\ wire.rid = 2)
           /\ m_subtractBackground = 0
                => /\ target = "img"
                   /\ wire.sht <= 1
                   /\ ~wire.bkgWritten
                   /\ SnapSucceeded => (wire.sht = 1 /\ wire.rid = 1)
\* A successful SnapImage with subtraction enabled: two triggers, two readouts
C22_WitnessEnabled ==
    /\ SnapSucceeded
    /\ m_subtractBackground # 0
    /\ wire.sht = 2
    /\ wire.bkgWritten
\* A successful SnapImage with subtraction disabled
C22_WitnessDisabled ==
    /\ SnapSucceeded
    /\ m_subtractBackground = 0
    /\ wire.sht = 1
    /\ wire.rid = 1
\* C22: with subtraction enabled SnapImage has been through the whole
\* zero-exposure cycle (trigger, 2-byte acknowledgment, readout command, the
\* full frame of N payload bytes in the background buffer) before it sends
\* the real-exposure trigger; with subtraction disabled it sends one trigger
\* and one readout command and no frame goes to the background buffer.
C22_BackgroundCycleFirst ==
    /\ C22_TriggerOrder
    /\ (lastOp = "SnapImage" /\ target = "bkg") => wire.ackAtRid \in {-1, AckLen}
    /\ (lastOp = "SnapImage" /\ pc = "sht" /\ wire.bkgWritten)
         => m_bkgBuf.px = Ramp(wire.bgSeed, GetImageBufferSize)

\* C23: the acknowledgment loop of SnapImage has ended by the time
\* MaxAckPolls reads in a row have come back empty.
C23_AckLoopBounded ==
    (pc = "ack" /\ wire.empty = wire.polls) => wire.polls < MaxAckPolls

\* C24: a read is asked for no more bytes than are free in its destination:
\* totalRead plus 2 within the 2-byte acknowledgment array, totalRead plus
\* chunkSize within the 2*N bytes of the accumulation buffer.
C24_ReadsFitDestination ==
    /\ pc = "ack" => totalRead + AckLen <= AckLen
    /\ pc = "read" => totalRead + chunkSize <= 2 * GetImageBufferSize
\* The same for the acknowledgment array alone
C24_AckReadFits ==
    pc = "ack" => totalRead + AckLen <= AckLen
\* The same for the accumulation buffer of a frame that is not empty
C24_ChunkReadFits ==
    (pc = "read" /\ GetImageBufferSize > 0)
        => totalRead + chunkSize <= 2 * GetImageBufferSize
=============================================================================
